---- MODULE Spec2Model ----
(***************************************************************************)
(* Model of the image grid composer of src/src/App/App.tsx: the React      *)
(* component App, its state (images, gridSize, customWidth), the canvas it *)
(* draws on, the asynchronous file reads and image decodes started by an   *)
(* upload, and the event handlers of its controls.                         *)
(*                                                                         *)
(* React runs the effect of App.tsx:129-131 (drawCanvas) after every       *)
(* committed state change of images, gridSize or customWidth; every setter *)
(* of the component builds a new array or object, so the effect runs after *)
(* every handler that calls a setter.  Each action below is therefore the  *)
(* handler followed by drawCanvas on the new state.                        *)
(***************************************************************************)
EXTENDS Integers, Sequences, FiniteSets

VARIABLES
    images,       \* useState<ImageData[]>: the session list, in list order
    gridSize,     \* useState<GridSize>: [rows, cols]
    customWidth,  \* useState<number>: the configured cell width
    canvas,       \* the <canvas> element, its 2d context and what was drawn
    pending,      \* file reads and image decodes in flight
    now,          \* the clock Date.now() reads
    lastOp        \* the handler that ran last

vars == <<images, gridSize, customWidth, canvas, pending, now, lastOp>>

---------------------------------------------------------------------------
(* Bounds of the model *)

\* the list and the work in flight together hold at most MaxImages images
MaxImages == 2
\* an upload selects at most MaxBatch files
MaxBatch == 2
\* the clock advances at most MaxClock milliseconds
MaxClock == 1

---------------------------------------------------------------------------
(* JavaScript numbers and strings *)

\* A string is the sequence of its characters.
Digits == <<"0", "1", "2", "3", "4", "5", "6", "7", "8", "9">>

IsDigit(c) == \E i \in 1..10 : Digits[i] = c

DigitVal(c) == (CHOOSE i \in 1..10 : Digits[i] = c) - 1

IsSpace(c) == c = " "

\* A number is an integer or NaN.
NaN == [nan |-> TRUE, v |-> 0]

Num(n) == [nan |-> FALSE, v |-> n]

RECURSIVE SkipSpace(_)
SkipSpace(s) ==
    IF s # <<>> /\ IsSpace(Head(s)) THEN SkipSpace(Tail(s)) ELSE s

RECURSIVE DigitPrefix(_)
DigitPrefix(s) ==
    IF s # <<>> /\ IsDigit(Head(s)) THEN <<Head(s)>> \o DigitPrefix(Tail(s)) ELSE <<>>

RECURSIVE DigitsValue(_)
DigitsValue(ds) ==
    IF ds = <<>> THEN 0
    ELSE 10 * DigitsValue(SubSeq(ds, 1, Len(ds) - 1)) + DigitVal(ds[Len(ds)])

\* parseInt(string): leading white space is skipped, then an optional sign,
\* then the longest run of decimal digits; NaN when there is no digit.
parseInt(str) ==
    LET s    == SkipSpace(str)
        neg  == s # <<>> /\ Head(s) = "-"
        body == IF s # <<>> /\ Head(s) \in {"-", "+"} THEN Tail(s) ELSE s
        ds   == DigitPrefix(body)
    IN  IF ds = <<>> THEN NaN
        ELSE Num(IF neg THEN 0 - DigitsValue(ds) ELSE DigitsValue(ds))

\* a - b
JsSub(a, b) == IF a.nan THEN NaN ELSE Num(a.v - b)

\* a || d : d when a is falsy (NaN or 0)
JsOr(a, d) == IF a.nan \/ a.v = 0 THEN d ELSE a.v

Abs(n) == IF n < 0 THEN 0 - n ELSE n

\* Math.floor(a / b), b # 0
MathFloorDiv(a, b) == IF b > 0 THEN a \div b ELSE (0 - a) \div (0 - b)

\* a % b, b # 0: the remainder has the sign of the dividend
JsRem(a, b) == IF a < 0 THEN 0 - (Abs(a) % Abs(b)) ELSE a % Abs(b)

\* Math.round(num / den), den > 0: the nearest integer, a tie going up
MathRound(num, den) == (2 * num + den) \div (2 * den)

String(n) ==
    LET RECURSIVE Dec(_)
        Dec(k) == IF k < 10 THEN <<Digits[k + 1]>>
                  ELSE Dec(k \div 10) \o <<Digits[(k % 10) + 1]>>
    IN  IF n < 0 THEN <<"-">> \o Dec(0 - n) ELSE Dec(n)

---------------------------------------------------------------------------
(* Files offered to the file input *)

ImagePrefix == <<"i", "m", "a", "g", "e", "/">>

PngType == ImagePrefix \o <<"p", "n", "g">>

TextType == <<"t", "e", "x", "t", "/", "p", "l", "a", "i", "n">>

\* File: name and MIME type (the content, src, is carried by the name)
Files ==
    { [name |-> "card.png",  type |-> PngType],
      [name |-> "notes.txt", type |-> TextType] }

\* string.startsWith(prefix)
startsWith(s, prefix) ==
    Len(s) >= Len(prefix) /\ SubSeq(s, 1, Len(prefix)) = prefix

\* event.target.files of one change event of the file input
Batches == UNION { [1..n -> Files] : n \in 0..MaxBatch }

---------------------------------------------------------------------------
(* Values typed into the controls *)

\* rows and columns inputs: empty, non-numeric, zero, negative, numbers
GridInputs ==
    { <<>>, <<"x">>, <<"0">>, <<"-", "3">>, <<"5">>, <<"1", "0">> }

\* <input type="range" min="200" max="600">
MinWidth == 200

MaxWidth == 600

\* the range input always holds a number of its range
WidthInputs == { String(202), String(300) }

\* position inputs (1-based): empty, non-numeric, zero, numbers
PositionInputs == { <<>>, <<"x">>, <<"0">>, <<"7", "1">> }

---------------------------------------------------------------------------
(* Cell geometry *)

\* const MTG_RATIO = 7/5
MTG_RATIO == [num |-> 7, den |-> 5]

\* customHeight with the quotient truncated instead of rounded
customHeightTruncated(width) == (width * MTG_RATIO.num) \div MTG_RATIO.den

\* const customHeight = Math.round(customWidth * MTG_RATIO).  7w/5 is never
\* within 1/10 of a half-integer, so the double product rounds as the exact
\* quotient does.
customHeight(width) == MathRound(width * MTG_RATIO.num, MTG_RATIO.den)

\* getActualCellDimensions()
getActualCellDimensions(width) ==
    [width |-> width, height |-> customHeight(width)]

\* const devicePixelRatio = 2
devicePixelRatio == 2

---------------------------------------------------------------------------
(* The canvas: the bitmap's size, the CSS size, the context's transform     *)
(* (a uniform scale), and what was stroked and drawn on the bitmap since it *)
(* was last reset, in device pixels, in drawing order.                      *)

\* resetBitmap with the transform left as it was
resetBitmapKeepsTransform(cv) ==
    [cv EXCEPT !.vlines = <<>>, !.hlines = <<>>, !.drawn = <<>>]

\* the bitmap is cleared and the context returns to its default state
resetBitmap(cv) ==
    [cv EXCEPT !.scale = 1, !.vlines = <<>>, !.hlines = <<>>, !.drawn = <<>>]

\* canvas.width = v: the attribute takes v, or its default when v is
\* negative, and the bitmap and the context are reset
setCanvasWidth(cv, v) ==
    [resetBitmap(cv) EXCEPT !.width = IF v >= 0 THEN v ELSE 300]

\* canvas.height = v
setCanvasHeight(cv, v) ==
    [resetBitmap(cv) EXCEPT !.height = IF v >= 0 THEN v ELSE 150]

\* ctx.scale(k, k)
ctxScale(cv, k) == [cv EXCEPT !.scale = cv.scale * k]

\* a drawn rectangle d lies inside the rectangle (0, 0, w, h), device pixels
Inside(d, w, h) ==
    /\ 0 <= d.x /\ d.x + d.w <= w
    /\ 0 <= d.y /\ d.y + d.h <= h

\* ctx.clearRect(0, 0, w, h)
ctxClearRect(cv, w, h) ==
    LET pw == w * cv.scale
        ph == h * cv.scale
    IN  [cv EXCEPT
            !.vlines = SelectSeq(cv.vlines, LAMBDA x : ~ (0 <= x /\ x <= pw)),
            !.hlines = SelectSeq(cv.hlines, LAMBDA y : ~ (0 <= y /\ y <= ph)),
            !.drawn  = SelectSeq(cv.drawn, LAMBDA d : ~ Inside(d, pw, ph))]

\* ctx.drawImage(image, x, y, w, h)
ctxDrawImage(cv, image, x, y, w, h) ==
    [cv EXCEPT !.drawn = Append(cv.drawn,
        [image |-> image, x |-> x * cv.scale, y |-> y * cv.scale,
         w |-> w * cv.scale, h |-> h * cv.scale])]

\* for (let i = 0; i <= gridSize.cols; i++)
\*     { beginPath(); moveTo(i * cellWidth, 0); lineTo(i * cellWidth, totalHeight); stroke() }
\* A vertical stroke spans the canvas; it is recorded by its x, in device
\* pixels, in the order stroked.
verticalLines(cv, cols, cellWidth) ==
    [cv EXCEPT !.vlines =
        cv.vlines \o [k \in 1..(cols + 1) |-> (k - 1) * cellWidth * cv.scale]]

\* for (let i = 0; i <= gridSize.rows; i++)
\*     { beginPath(); moveTo(0, i * cellHeight); lineTo(totalWidth, i * cellHeight); stroke() }
\* A horizontal stroke spans the canvas; it is recorded by its y.
horizontalLines(cv, rows, cellHeight) ==
    [cv EXCEPT !.hlines =
        cv.hlines \o [k \in 1..(rows + 1) |-> (k - 1) * cellHeight * cv.scale]]

\* const row = Math.floor(imgData.position / gridSize.cols)
rowOf(position, grid) == MathFloorDiv(position, grid.cols)

\* const col = imgData.position % gridSize.cols
colOf(position, grid) == JsRem(position, grid.cols)

\* if (row < gridSize.rows && col < gridSize.cols)
inGrid(row, col, grid) == row < grid.rows /\ col < grid.cols

\* the body of images.forEach: one entry
drawEntry(cv, imgData, grid, cell) ==
    LET row == rowOf(imgData.position, grid)
        col == colOf(imgData.position, grid)
    IN  IF inGrid(row, col, grid)
        THEN ctxDrawImage(cv, imgData.image,
                          col * cell.width, row * cell.height,
                          cell.width, cell.height)
        ELSE cv

\* drawImages taking the entries from the last to the first
RECURSIVE drawImagesReversed(_, _, _, _)
drawImagesReversed(cv, imgs, grid, cell) ==
    IF imgs = <<>> THEN cv
    ELSE drawImagesReversed(drawEntry(cv, imgs[Len(imgs)], grid, cell),
                            SubSeq(imgs, 1, Len(imgs) - 1), grid, cell)

\* images.forEach(...): the entries in list order
RECURSIVE drawImages(_, _, _, _)
drawImages(cv, imgs, grid, cell) ==
    IF imgs = <<>> THEN cv
    ELSE drawImages(drawEntry(cv, Head(imgs), grid, cell), Tail(imgs), grid, cell)

\* drawCanvas(), on the canvas cv with the component's state
drawCanvas(cv, imgs, grid, width) ==
    LET cell        == getActualCellDimensions(width)
        totalWidth  == grid.cols * cell.width
        totalHeight == grid.rows * cell.height
        c1 == setCanvasWidth(cv, totalWidth * devicePixelRatio)
        c2 == setCanvasHeight(c1, totalHeight * devicePixelRatio)
        c3 == [c2 EXCEPT !.styleWidth = totalWidth, !.styleHeight = totalHeight]
        c4 == ctxScale(c3, devicePixelRatio)
        c5 == ctxClearRect(c4, totalWidth, totalHeight)
        c6 == verticalLines(c5, grid.cols, cell.width)
        c7 == horizontalLines(c6, grid.rows, cell.height)
    IN  drawImages(c7, imgs, grid, cell)

\* a canvas element before anything was drawn on it
newCanvas ==
    [width |-> 300, height |-> 150, styleWidth |-> 0, styleHeight |-> 0,
     scale |-> 1, vlines |-> <<>>, hlines |-> <<>>, drawn |-> <<>>]

---------------------------------------------------------------------------
(* The image list: the updater functions passed to setImages *)

\* appendImage putting the new entry first
prependImage(prev, id, image, name) ==
    <<[id |-> id, image |-> image, name |-> name, position |-> Len(prev)]>> \o prev

\* prev => [...prev, { id, src, image, name, position: prev.length }]
appendImage(prev, id, image, name) ==
    Append(prev, [id |-> id, image |-> image, name |-> name,
                  position |-> Len(prev)])

\* prev => prev.map(img => img.id === imageId ? {...img, position} : img)
moveImageList(prev, imageId, newPosition) ==
    [i \in 1..Len(prev) |->
        IF prev[i].id = imageId
        THEN [prev[i] EXCEPT !.position = newPosition]
        ELSE prev[i]]

\* prev => prev.filter(img => img.id !== imageId)
removeImageList(prev, imageId) ==
    SelectSeq(prev, LAMBDA img : img.id # imageId)

\* autoArrangeList numbering from 1, as the position input shows it
autoArrangeOneBased(prev) ==
    [i \in 1..Len(prev) |-> [prev[i] EXCEPT !.position = i]]

\* prev => prev.map((img, index) => ({...img, position: index}))
autoArrangeList(prev) ==
    [i \in 1..Len(prev) |-> [prev[i] EXCEPT !.position = i - 1]]

\* parseInt(event.target.value) || 1
gridValue(value) == JsOr(parseInt(value), 1)

\* parseInt(event.target.value) - 1 || 0
positionValue(value) == JsOr(JsSub(parseInt(value), 1), 0)

\* Date.now() + index
newId(clock, index) == clock + index

---------------------------------------------------------------------------
(* Work in flight.  Each accepted file gets a FileReader and then an Image; *)
(* `image` names that Image object.  An object that is neither in flight    *)
(* nor in the list is garbage, and its name is free again.                  *)

liveImages ==
    { t.image : t \in pending } \cup { images[i].image : i \in 1..Len(images) }

freeImages == (1..MaxImages) \ liveImages

\* the k-th smallest element of S
RECURSIVE kth(_, _)
kth(S, k) ==
    LET m == CHOOSE x \in S : \A y \in S : x <= y
    IN  IF k = 1 THEN m ELSE kth(S \ {m}, k - 1)

\* the indexes (1-based) of the files the upload accepts
accepted(files) ==
    { i \in 1..Len(files) : startsWith(files[i].type, ImagePrefix) }

---------------------------------------------------------------------------
(* Initial state: the component is mounted and its effect has drawn once *)

Init ==
    /\ images = <<>>
    /\ gridSize = [rows |-> 7, cols |-> 10]
    /\ customWidth = 300
    /\ canvas = drawCanvas(newCanvas, <<>>, [rows |-> 7, cols |-> 10], 300)
    /\ pending = {}
    /\ now = 0
    /\ lastOp = "mount"

---------------------------------------------------------------------------
(* Actions *)

\* handleImageUpload: a FileReader is started for every image file
handleImageUpload(files) ==
    LET acc == accepted(files)
    IN  /\ Len(images) + Cardinality(pending) + Cardinality(acc) <= MaxImages
        /\ pending' = pending \cup
             { [image |-> kth(freeImages, Cardinality({j \in acc : j <= i})),
                index |-> i - 1, name |-> files[i].name, stage |-> "reading"]
               : i \in acc }
        /\ lastOp' = "handleImageUpload"
        /\ UNCHANGED <<images, gridSize, customWidth, canvas, now>>

\* reader.onload: the Image is created and starts decoding
readerOnload(t) ==
    /\ t \in pending /\ t.stage = "reading"
    /\ pending' = (pending \ {t}) \cup {[t EXCEPT !.stage = "decoding"]}
    /\ lastOp' = "readerOnload"
    /\ UNCHANGED <<images, gridSize, customWidth, canvas, now>>

\* img.onload: the entry is appended, then the effect redraws
imgOnload(t) ==
    /\ t \in pending /\ t.stage = "decoding"
    /\ pending' = pending \ {t}
    /\ images' = appendImage(images, newId(now, t.index), t.image, t.name)
    /\ canvas' = drawCanvas(canvas, images', gridSize, customWidth)
    /\ lastOp' = "imgOnload"
    /\ UNCHANGED <<gridSize, customWidth, now>>

\* the read or the decode fails: no handler is registered, nothing happens
loadError(t) ==
    /\ t \in pending
    /\ pending' = pending \ {t}
    /\ lastOp' = "loadError"
    /\ UNCHANGED <<images, gridSize, customWidth, canvas, now>>

\* a millisecond passes
Tick ==
    /\ now < MaxClock
    /\ now' = now + 1
    /\ lastOp' = "Tick"
    /\ UNCHANGED <<images, gridSize, customWidth, canvas, pending>>

\* moveImage
moveImage(imageId, newPosition) ==
    /\ images' = moveImageList(images, imageId, newPosition)
    /\ canvas' = drawCanvas(canvas, images', gridSize, customWidth)
    /\ UNCHANGED <<gridSize, customWidth, pending, now>>

\* handlePositionChange, of the position input of a listed entry
handlePositionChange(imageId, value) ==
    /\ moveImage(imageId, positionValue(value))
    /\ lastOp' = "handlePositionChange"

\* removeImage, of the Remove button of a listed entry
removeImage(imageId) ==
    /\ images' = removeImageList(images, imageId)
    /\ canvas' = drawCanvas(canvas, images', gridSize, customWidth)
    /\ lastOp' = "removeImage"
    /\ UNCHANGED <<gridSize, customWidth, pending, now>>

\* clearAll
clearAll ==
    /\ images' = <<>>
    /\ canvas' = drawCanvas(canvas, images', gridSize, customWidth)
    /\ lastOp' = "clearAll"
    /\ UNCHANGED <<gridSize, customWidth, pending, now>>

\* autoArrange
autoArrange ==
    /\ images' = autoArrangeList(images)
    /\ canvas' = drawCanvas(canvas, images', gridSize, customWidth)
    /\ lastOp' = "autoArrange"
    /\ UNCHANGED <<gridSize, customWidth, pending, now>>

\* handleGridRowsChange with gridSize missing from the effect's dependencies
handleGridRowsChangeNoRedraw(value) ==
    /\ gridSize' = [gridSize EXCEPT !.rows = gridValue(value)]
    /\ lastOp' = "handleGridRowsChange"
    /\ UNCHANGED <<images, customWidth, canvas, pending, now>>

\* handleGridRowsChange
handleGridRowsChange(value) ==
    /\ gridSize' = [gridSize EXCEPT !.rows = gridValue(value)]
    /\ canvas' = drawCanvas(canvas, images, gridSize', customWidth)
    /\ lastOp' = "handleGridRowsChange"
    /\ UNCHANGED <<images, customWidth, pending, now>>

\* handleGridColsChange
handleGridColsChange(value) ==
    /\ gridSize' = [gridSize EXCEPT !.cols = gridValue(value)]
    /\ canvas' = drawCanvas(canvas, images, gridSize', customWidth)
    /\ lastOp' = "handleGridColsChange"
    /\ UNCHANGED <<images, customWidth, pending, now>>

\* handleCustomWidthChange
handleCustomWidthChange(value) ==
    /\ customWidth' = parseInt(value).v
    /\ canvas' = drawCanvas(canvas, images, gridSize, customWidth')
    /\ lastOp' = "handleCustomWidthChange"
    /\ UNCHANGED <<images, gridSize, pending, now>>

ListNext ==
    \/ \E files \in Batches : handleImageUpload(files)
    \/ \E t \in pending : readerOnload(t)
    \/ \E t \in pending : imgOnload(t)
    \/ \E t \in pending : loadError(t)
    \/ Tick
    \/ \E i \in 1..Len(images), value \in PositionInputs :
          handlePositionChange(images[i].id, value)
    \/ \E i \in 1..Len(images) : removeImage(images[i].id)
    \/ clearAll
    \/ autoArrange

ConfigNext ==
    \/ \E value \in GridInputs : handleGridRowsChange(value)
    \/ \E value \in GridInputs : handleGridColsChange(value)
    \/ \E value \in WidthInputs : handleCustomWidthChange(value)

Next == ListNext \/ ConfigNext

\* the application
Spec == Init /\ [][Next]_vars

\* the application while the grid controls are left alone
SpecList == Init /\ [][ListNext]_vars

\* Lists the application reaches by uploading n files at once, decoding
\* them in order and editing their positions
RenderPositionInputs ==
    { <<>>, <<"0">>, <<"6">>, <<"2", "4">>, <<"6", "8">> }

RenderLists ==
    UNION { { [i \in 1..n |->
                 [id |-> newId(0, i - 1), image |-> i, name |-> "card.png",
                  position |-> positionValue(p[i])]]
              : p \in [1..n -> RenderPositionInputs] }
            : n \in 0..MaxImages }

InitRender ==
    /\ images \in RenderLists
    /\ gridSize = [rows |-> 7, cols |-> 10]
    /\ customWidth = 300
    /\ canvas = drawCanvas(newCanvas, images, gridSize, customWidth)
    /\ pending = {}
    /\ now = 0
    /\ lastOp = "mount"

\* drawCanvas as a function of the list, the grid shape and the cell width:
\* any such list, under every sequence of changes of the grid controls
SpecRender == InitRender /\ [][ConfigNext]_vars

InitGeometry ==
    /\ images = <<>>
    /\ gridSize = [rows |-> 7, cols |-> 10]
    /\ customWidth \in MinWidth..MaxWidth
    /\ canvas = drawCanvas(newCanvas, images, gridSize, customWidth)
    /\ pending = {}
    /\ now = 0
    /\ lastOp = "mount"

\* the cell geometry for every width of the slider's range
SpecGeometry == InitGeometry /\ [][ConfigNext]_vars

---------------------------------------------------------------------------
(* What the canvas shows *)

\* the entries of the list, as indexes
Entries == 1..Len(images)

\* the logical size of the cell (device pixels divided by the scale)
cellW == customWidth

cellH == customHeight(customWidth)

\* the drawn rectangle d is exactly the cell (row, col), in device pixels
AtCell(d, row, col) ==
    /\ d.x = canvas.scale * col * cellW
    /\ d.y = canvas.scale * row * cellH
    /\ d.w = canvas.scale * cellW
    /\ d.h = canvas.scale * cellH

\* the drawn rectangle d covers the cell (row, col)
Covers(d, row, col) ==
    /\ d.x <= canvas.scale * col * cellW
    /\ canvas.scale * (col + 1) * cellW <= d.x + d.w
    /\ d.y <= canvas.scale * row * cellH
    /\ canvas.scale * (row + 1) * cellH <= d.y + d.h

\* the image visible in cell (row, col): the last one drawn over it; 0 if none
Visible(row, col) ==
    LET ks == { k \in 1..Len(canvas.drawn) : Covers(canvas.drawn[k], row, col) }
    IN  IF ks = {} THEN 0
        ELSE canvas.drawn[CHOOSE k \in ks : \A j \in ks : j <= k].image

\* entry i resolves to a cell of the grid
InGridCell(i) ==
    LET pos == images[i].position
    IN  /\ pos >= 0
        /\ gridSize.cols >= 1
        /\ pos \div gridSize.cols < gridSize.rows

---------------------------------------------------------------------------
(* C1 *)

\* the entries the claim has drawn: row and col both within the grid
C1_InRange(e) ==
    LET row == rowOf(e.position, gridSize)
        col == colOf(e.position, gridSize)
    IN  0 <= row /\ row < gridSize.rows /\ 0 <= col /\ col < gridSize.cols

C1_Rect(e) ==
    [image |-> e.image,
     x |-> canvas.scale * colOf(e.position, gridSize) * cellW,
     y |-> canvas.scale * rowOf(e.position, gridSize) * cellH,
     w |-> canvas.scale * cellW,
     h |-> canvas.scale * cellH]

\* C1: render draws an entry if and only if its row is in [0, rows) and its
\* col is in [0, cols), at the rectangle (col*w, row*h, w, h), so that every
\* drawn rectangle lies inside the logical canvas (cols*w by rows*h).
C1_DrawnIffInGrid ==
    LET sel == SelectSeq(images, C1_InRange)
    IN  /\ Len(canvas.drawn) = Len(sel)
        /\ \A k \in 1..Len(sel) : canvas.drawn[k] = C1_Rect(sel[k])
        /\ \A k \in 1..Len(canvas.drawn) :
              Inside(canvas.drawn[k],
                     canvas.scale * gridSize.cols * cellW,
                     canvas.scale * gridSize.rows * cellH)

---------------------------------------------------------------------------
(* C3 *)

\* C3: in every reachable state the grid shape has rows >= 1 and cols >= 1,
\* whatever was typed into the rows and columns inputs.
C3_GridShapeAtLeastOne == gridSize.rows >= 1 /\ gridSize.cols >= 1

---------------------------------------------------------------------------
(* C4 *)

\* C4: in every reachable state every entry's position is a non-negative
\* integer.
C4_PositionsNonNegative == \A i \in Entries : images[i].position >= 0

---------------------------------------------------------------------------
(* C8 *)

\* C8: in every reachable state no two entries of the list share an id.
C8_UniqueIds ==
    \A i, j \in Entries : i # j => images[i].id # images[j].id

---------------------------------------------------------------------------
(* C2 *)

\* C2: auto-arrange keeps the entries, their order and their identities,
\* gives the entry at list index i the position i (from 0), and applied a
\* second time changes nothing.
C2_AutoArrange ==
    [][lastOp' = "autoArrange" =>
          /\ Len(images') = Len(images)
          /\ \A i \in 1..Len(images) :
                /\ images'[i].id = images[i].id
                /\ images'[i].image = images[i].image
                /\ images'[i].name = images[i].name
                /\ images'[i].position = i - 1
          /\ autoArrangeList(images') = images']_vars

\* auto-arrange has run on a list of two entries
C2_Witness ==
    /\ lastOp = "autoArrange"
    /\ Len(images) = 2
    /\ images[1].position = 0 /\ images[2].position = 1

---------------------------------------------------------------------------
(* C5 *)

\* C5: for every width w of 200..600 and every grid shape with rows, cols
\* >= 1, the cell height h is 7w/5 rounded to the nearest integer, the
\* logical canvas is cols*w by rows*h and the bitmap is 2*cols*w by
\* 2*rows*h; cols = 10, rows = 7, w = 300 gives h = 420, 3000 by 2940 and
\* 6000 by 5880.
C5_Geometry ==
    (gridSize.rows >= 1 /\ gridSize.cols >= 1 /\ customWidth \in MinWidth..MaxWidth) =>
        LET w == customWidth
            h == getActualCellDimensions(customWidth).height
        IN  /\ getActualCellDimensions(customWidth).width = w
            /\ 0 - 5 <= 2 * (7 * w - 5 * h) /\ 2 * (7 * w - 5 * h) < 5
            /\ canvas.styleWidth = gridSize.cols * w
            /\ canvas.styleHeight = gridSize.rows * h
            /\ canvas.width = 2 * gridSize.cols * w
            /\ canvas.height = 2 * gridSize.rows * h
            /\ (gridSize.cols = 10 /\ gridSize.rows = 7 /\ w = 300) =>
                  /\ h = 420
                  /\ canvas.styleWidth = 3000 /\ canvas.styleHeight = 2940
                  /\ canvas.width = 6000 /\ canvas.height = 5880

\* the slider was moved to 202, whose height 282.8 rounds up to 283, on a
\* grid of 5 rows
C5_Witness ==
    /\ lastOp = "handleCustomWidthChange"
    /\ customWidth = 202
    /\ gridSize.rows = 5 /\ gridSize.cols >= 1
    /\ canvas.height = 2830

---------------------------------------------------------------------------
(* C6 *)

\* C6: rendering again with the same list, grid shape and cell width leaves
\* the canvas as it is: the same bitmap size, the same transform (the scale
\* of 2, applied once) and the same contents.
C6_RenderIdempotent ==
    /\ drawCanvas(canvas, images, gridSize, customWidth) = canvas
    /\ canvas.scale = devicePixelRatio

\* a render after several others, with two images on the canvas
C6_Witness ==
    /\ lastOp = "handleGridColsChange"
    /\ gridSize.rows = 5 /\ gridSize.cols = 5
    /\ Len(canvas.drawn) >= 2

---------------------------------------------------------------------------
(* C7 *)

\* C7: a cell of the grid that several entries resolve to shows the image of
\* the one that is last in list order.
C7_LastWriterWins ==
    \A i \in Entries :
        InGridCell(i) =>
            LET pos  == images[i].position
                same == { j \in Entries : images[j].position = pos }
                last == CHOOSE j \in same : \A k \in same : k <= j
            IN  Visible(pos \div gridSize.cols, pos % gridSize.cols)
                    = images[last].image

\* two entries at position 5, rendered on the 10 by 10 grid after a change of
\* the rows input: the cell in row 0, column 5 shows the later one
C7_Witness ==
    /\ lastOp = "handleGridRowsChange"
    /\ Len(images) >= 2
    /\ images[1].position = 5 /\ images[2].position = 5
    /\ images[1].image # images[2].image
    /\ gridSize = [rows |-> 10, cols |-> 10]
    /\ \A i \in Entries : i > 2 => images[i].position # 5
    /\ Visible(0, 5) = images[2].image

---------------------------------------------------------------------------
(* C9 *)

\* C9: a decode completion appends exactly one entry at the end of the list,
\* with the position the list's length had, and leaves the other entries as
\* they were; nothing else adds an entry, and no entry comes from a file
\* whose type is not an image type.
C9_DecodeAppends ==
    [][/\ lastOp' = "imgOnload" =>
            /\ Len(images') = Len(images) + 1
            /\ SubSeq(images', 1, Len(images)) = images
            /\ images'[Len(images')].position = Len(images)
       /\ Len(images') > Len(images) => lastOp' = "imgOnload"
       /\ \A i \in 1..Len(images') :
             \E f \in Files :
                f.name = images'[i].name /\ startsWith(f.type, ImagePrefix)
       /\ \A t \in pending' :
             \E f \in Files :
                f.name = t.name /\ startsWith(f.type, ImagePrefix)]_vars

\* a decode completed after the position of the entry before it was edited
C9_Witness ==
    /\ lastOp = "imgOnload"
    /\ Len(images) = 2
    /\ images[1].position = 70
    /\ images[2].position = 1

---------------------------------------------------------------------------
(* C10 *)

\* entry i is drawn exactly at the cell its position resolves to
DrawnAtOwnCell(i) ==
    \E k \in 1..Len(canvas.drawn) :
        /\ canvas.drawn[k].image = images[i].image
        /\ AtCell(canvas.drawn[k], images[i].position \div gridSize.cols,
                                   images[i].position % gridSize.cols)

\* entry i is not drawn
NotDrawn(i) ==
    \A k \in 1..Len(canvas.drawn) : canvas.drawn[k].image # images[i].image

\* the canvas shows the entries with a position from 0 on: in the grid, at
\* their own cell; outside the grid, nowhere
ShowsEntries ==
    \A i \in Entries :
        images[i].position >= 0 =>
            IF InGridCell(i) THEN DrawnAtOwnCell(i) ELSE NotDrawn(i)

\* C10: a change of the grid shape or of the cell width leaves the image list
\* as it is and is followed by a render of the new state, which omits the
\* entries outside the grid and draws those inside it at the cell of their
\* unchanged position.
C10_ConfigChangeKeepsList ==
    [][(gridSize' # gridSize \/ customWidth' # customWidth) =>
          /\ images' = images
          /\ canvas' = drawCanvas(newCanvas, images', gridSize', customWidth')
          /\ ShowsEntries']_vars

\* an entry at position 67, outside every grid smaller than 7 by 8, is drawn
\* at row 6, column 7 after the grid was set to 10 by 10
C10_Witness ==
    /\ lastOp = "handleGridRowsChange"
    /\ gridSize = [rows |-> 10, cols |-> 10]
    /\ \E i \in Entries :
          /\ images[i].position = 67
          /\ \E k \in 1..Len(canvas.drawn) :
                /\ canvas.drawn[k].image = images[i].image
                /\ AtCell(canvas.drawn[k], 6, 7)

====
